---------------------------- MODULE Spec2Model ----------------------------
(***************************************************************************)
(* Model of src/utils.rs (crypto utils): little-endian word codec, pad16,  *)
(* zero_memory, copy_slice_memory, byte_eq, bytes_eq and bytes_cswap.      *)
(*                                                                         *)
(* Machine integers are bit vectors: a value of a w-bit type is a function *)
(* from bit positions 0..w-1 (bit 0 least significant) to {0,1}, so every  *)
(* width of the source (u8, u32, u64, i8, i16) is exact and the operators  *)
(* of the source (^ | & ! << >> - as) are modelled bit for bit.            *)
(*                                                                         *)
(* The functions are driven by a caller: Init draws the caller's memory    *)
(* (words, buffers, by-value arguments), every action is one call of one   *)
(* function on that memory, a failed assertion ends the caller.            *)
(***************************************************************************)
EXTENDS Integers, Sequences, FiniteSets

VARIABLES
    unit,     \* which group of functions this caller exercises
    hist,     \* the calls made so far, oldest first
    status,   \* "ready" | "returned" | "panicked"
    mem0,     \* the caller's memory as drawn by Init
    pre,      \* the caller's memory just before the last call
    mem,      \* the caller's memory now
    ret,      \* what the last call returned ("-" when it returns nothing)
    reads     \* byte offsets the loop of the last bytes_eq call read, in order

vars == <<unit, hist, status, mem0, pre, mem, ret, reads>>

---------------------------------------------------------------------------
(* Bounds of the model *)

\* calls one caller makes in a row on the same memory
MaxCalls == 2
\* longest element buffer handed to zero_memory, copy_slice_memory, bytes_eq
MaxLen == 3
\* longest element buffer handed to bytes_cswap
MaxSwapLen == 2
\* bytes a codec buffer may have beyond the 4 (or 8) the codec needs
MaxExtra == 1
\* largest length handed to pad16
MaxPadLen == 130

---------------------------------------------------------------------------
(* Machine integers *)

Width(v) == Cardinality(DOMAIN v)

\* the integer literal n (n < 2^16) at a w-bit type
Lit(n, w) == [i \in 0..(w - 1) |-> IF i < 16 THEN (n \div (2 ^ i)) % 2 ELSE 0]

\* a ^ b
BitXor(a, b) == [i \in DOMAIN a |-> (a[i] + b[i]) % 2]
\* a | b
BitOr(a, b) == [i \in DOMAIN a |-> IF a[i] = 1 \/ b[i] = 1 THEN 1 ELSE 0]
\* a & b
BitAnd(a, b) == [i \in DOMAIN a |-> a[i] * b[i]]
\* !a
BitNot(a) == [i \in DOMAIN a |-> 1 - a[i]]
\* a << n, n < width: the bits shifted out are lost, zeros come in
Shl(a, n) == [i \in DOMAIN a |-> IF i >= n THEN a[i - n] ELSE 0]
\* a >> n on an unsigned type, n < width
Shr(a, n) == [i \in DOMAIN a |-> IF (i + n) \in DOMAIN a THEN a[i + n] ELSE 0]
\* a as uW between unsigned types: truncates, or extends with zeros
AsUnsigned(a, w) == [i \in 0..(w - 1) |-> IF i \in DOMAIN a THEN a[i] ELSE 0]

RECURSIVE BorrowInto(_, _, _)
\* the borrow into bit i of a - b
BorrowInto(a, b, i) ==
    IF i = 0 THEN 0
    ELSE IF a[i - 1] - b[i - 1] - BorrowInto(a, b, i - 1) < 0 THEN 1 ELSE 0
\* a - b, two's complement, wrapping
Sub(a, b) == [i \in DOMAIN a |-> (2 + a[i] - b[i] - BorrowInto(a, b, i)) % 2]

---------------------------------------------------------------------------
(* Endian codec *)

RECURSIVE u8to32_le_loop_assign(_, _, _)
\* the decode loop with "=" where the source has "|=": every step overwrites
u8to32_le_loop_assign(val, buf, i) ==
    IF i >= 4 THEN val
    ELSE u8to32_le_loop_assign(Shl(AsUnsigned(buf[i + 1], 32), 8 * i), buf, i + 1)

RECURSIVE u8to32_le_loop(_, _, _)
\* for i in range(0u, 4) { *val |= buf[i] as u32 << (8 * i); }
u8to32_le_loop(val, buf, i) ==
    IF i >= 4 THEN val
    ELSE u8to32_le_loop(BitOr(val, Shl(AsUnsigned(buf[i + 1], 32), 8 * i)), buf, i + 1)

\* the assertion of u8to32_le and of u32to8_le
Assert32(buf) == Len(buf) >= 4

u8to32_le(val, buf) ==
    IF Assert32(buf)
    THEN [panic |-> FALSE, val |-> u8to32_le_loop(val, buf, 0)]
    ELSE [panic |-> TRUE, val |-> val]

RECURSIVE u32to8_le_loop(_, _, _)
\* for i in range(0u, 4) { buf[i] = (*val >> (8 * i)) as u8 & 0xff; }
u32to8_le_loop(buf, val, i) ==
    IF i >= 4 THEN buf
    ELSE u32to8_le_loop(
             [buf EXCEPT ![i + 1] = BitAnd(AsUnsigned(Shr(val, 8 * i), 8), Lit(255, 8))],
             val, i + 1)

u32to8_le(buf, val) ==
    IF Assert32(buf)
    THEN [panic |-> FALSE, buf |-> u32to8_le_loop(buf, val, 0)]
    ELSE [panic |-> TRUE, buf |-> buf]

RECURSIVE u8to64_le_loop(_, _, _)
\* for i in range(0u, 8) { *val |= *buf.get(i).unwrap() as u64 << (8 * i); }
u8to64_le_loop(val, buf, i) ==
    IF i >= 8 THEN val
    ELSE u8to64_le_loop(BitOr(val, Shl(AsUnsigned(buf[i + 1], 64), 8 * i)), buf, i + 1)

\* the assertion of u8to64_le and of u64to8_le
Assert64(buf) == Len(buf) >= 8

u8to64_le(val, buf) ==
    IF Assert64(buf)
    THEN [panic |-> FALSE, val |-> u8to64_le_loop(val, buf, 0)]
    ELSE [panic |-> TRUE, val |-> val]

RECURSIVE u64to8_le_loop_be(_, _, _)
\* the encode loop writing the most significant byte first
u64to8_le_loop_be(buf, val, i) ==
    IF i >= 8 THEN buf
    ELSE u64to8_le_loop_be([buf EXCEPT ![8 - i] = AsUnsigned(Shr(val, 8 * i), 8)],
                           val, i + 1)

RECURSIVE u64to8_le_loop(_, _, _)
\* for i in range(0u, 8) { buf[i] = (*val >> (8 * i)) as u8; }
u64to8_le_loop(buf, val, i) ==
    IF i >= 8 THEN buf
    ELSE u64to8_le_loop([buf EXCEPT ![i + 1] = AsUnsigned(Shr(val, 8 * i), 8)],
                        val, i + 1)

u64to8_le(buf, val) ==
    IF Assert64(buf)
    THEN [panic |-> FALSE, buf |-> u64to8_le_loop(buf, val, 0)]
    ELSE [panic |-> TRUE, buf |-> buf]

---------------------------------------------------------------------------
(* The caller of the codec *)

\* the w-bit word whose set bits are exactly those of S
WordOf(S, w) == [i \in 0..(w - 1) |-> IF i \in S THEN 1 ELSE 0]

\* bit positions the drawn words combine: both ends of the word and of bytes
WordBits(w) == {0, 7, 8, w - 9, w - 1}
Words(w) == {WordOf(S, w) : S \in SUBSET WordBits(w)}

\* prior contents of a decode destination: zero, scattered bits, all ones
Accumulators(w) == {WordOf({}, w), WordOf({1, 7, w - 8, w - 1}, w), WordOf(0..(w - 1), w)}

\* codec buffers: all 0x00, all 0xff, and 0x81 0x82 0x83 ... (every byte differs)
ByteFill(f, k) ==
    CASE f = "zero" -> Lit(0, 8)
      [] f = "ones" -> Lit(255, 8)
      [] OTHER -> Lit(128 + k, 8)
CodecBufs(w) ==
    {[k \in 1..n |-> ByteFill(f, k)] :
        f \in {"zero", "ones", "ramp"},
        n \in {0, (w \div 8) - 1} \cup ((w \div 8)..((w \div 8) + MaxExtra))}

InitCodec ==
    /\ unit = "codec"
    /\ hist = <<>>
    /\ status = "ready"
    /\ \E w \in {32, 64} :
         mem \in [val : Words(w), out : Accumulators(w), buf : CodecBufs(w)]
    /\ mem0 = mem
    /\ pre = mem
    /\ ret = "-"
    /\ reads = <<>>

\* a caller that has not panicked makes its next call
CanCall(u) ==
    /\ unit = u
    /\ status # "panicked"
    /\ Len(hist) < MaxCalls

\* the bookkeeping of one call: fn was called, it panicked or returned r
Called(fn, panicked, r) ==
    /\ hist' = Append(hist, fn)
    /\ status' = IF panicked THEN "panicked" ELSE "returned"
    /\ pre' = mem
    /\ ret' = r
    /\ UNCHANGED <<unit, mem0>>

\* a call of anything but bytes_eq
CalledNoReads(fn, panicked, r) == Called(fn, panicked, r) /\ UNCHANGED reads

\* u8to32_le(&mut out, buf)
U8to32Le ==
    /\ CanCall("codec")
    /\ Width(mem.out) = 32
    /\ LET r == u8to32_le(mem.out, mem.buf) IN
         /\ mem' = [mem EXCEPT !.out = r.val]
         /\ CalledNoReads("u8to32_le", r.panic, "-")

\* u32to8_le(buf, &val)
U32to8Le ==
    /\ CanCall("codec")
    /\ Width(mem.val) = 32
    /\ LET r == u32to8_le(mem.buf, mem.val) IN
         /\ mem' = [mem EXCEPT !.buf = r.buf]
         /\ CalledNoReads("u32to8_le", r.panic, "-")

\* u8to64_le(&mut out, buf)
U8to64Le ==
    /\ CanCall("codec")
    /\ Width(mem.out) = 64
    /\ LET r == u8to64_le(mem.out, mem.buf) IN
         /\ mem' = [mem EXCEPT !.out = r.val]
         /\ CalledNoReads("u8to64_le", r.panic, "-")

\* u64to8_le(buf, &val)
U64to8Le ==
    /\ CanCall("codec")
    /\ Width(mem.val) = 64
    /\ LET r == u64to8_le(mem.buf, mem.val) IN
         /\ mem' = [mem EXCEPT !.buf = r.buf]
         /\ CalledNoReads("u64to8_le", r.panic, "-")

NextCodec == U8to32Le \/ U32to8Le \/ U8to64Le \/ U64to8Le

SpecCodec == InitCodec /\ [][NextCodec]_vars

---------------------------------------------------------------------------
(* Element buffers: a slice &[T] is a sequence of (8 * T)-bit values, where *)
(* T stands for mem::size_of::<T>()                                         *)

\* element values drawn: 0, 1, the minimum (only the top bit) and -1 (all ones)
Elems(T) == {WordOf({}, 8 * T), WordOf({0}, 8 * T), WordOf({8 * T - 1}, 8 * T),
             WordOf(0..(8 * T - 1), 8 * T)}

\* the buffers of at most max elements of E
BufsOf(E, max) == UNION {[1..n -> E] : n \in 0..max}

\* x.as_ptr() as *const u8: the bytes of the slice in memory order
\* (little-endian), byte offset k at index k + 1
AsBytes(x, T) ==
    [k \in 1..(Len(x) * T) |->
        [i \in 0..7 |-> x[((k - 1) \div T) + 1][8 * ((k - 1) % T) + i]]]

\* the slice of T-byte elements that the bytes hold
FromBytes(bytes, T) ==
    [n \in 1..(Len(bytes) \div T) |->
        [i \in 0..(8 * T - 1) |-> bytes[(n - 1) * T + (i \div 8) + 1][i % 8]]]

---------------------------------------------------------------------------
(* pad16 *)

\* pad16 without the outer "% 16"
pad16_no_outer_mod(len) == [k \in 1..(16 - (len % 16)) |-> Lit(0, 8)]

\* Vec::from_elem((16 - (len % 16)) % 16, 0)
pad16(len) == [k \in 1..((16 - (len % 16)) % 16) |-> Lit(0, 8)]

InitPad ==
    /\ unit = "pad"
    /\ hist = <<>>
    /\ status = "ready"
    /\ mem \in [len : 0..MaxPadLen]
    /\ mem0 = mem
    /\ pre = mem
    /\ ret = "-"
    /\ reads = <<>>

\* a caller of a pure function calls it once
CanCallOnce(u) ==
    /\ unit = u
    /\ status = "ready"

\* pad16(len)
Pad16 ==
    /\ CanCallOnce("pad")
    /\ mem' = mem
    /\ CalledNoReads("pad16", FALSE, pad16(mem.len))

NextPad == Pad16

SpecPad == InitPad /\ [][NextPad]_vars

---------------------------------------------------------------------------
(* zero_memory *)

\* a memset that takes count for a number of bytes
volatile_set_memory_bytes(bytes, T, val, count) ==
    [k \in DOMAIN bytes |-> IF k <= count THEN val ELSE bytes[k]]

\* intrinsics::volatile_set_memory(dst, val, count): sets count * size_of::<T>()
\* bytes starting at dst to val
volatile_set_memory(bytes, T, val, count) ==
    [k \in DOMAIN bytes |-> IF k <= count * T THEN val ELSE bytes[k]]

\* volatile_set_memory(b.as_mut_ptr(), 0, b.len())
zero_memory(b, T) ==
    FromBytes(volatile_set_memory(AsBytes(b, T), T, Lit(0, 8), Len(b)), T)

InitZero ==
    /\ unit = "zero"
    /\ hist = <<>>
    /\ status = "ready"
    /\ \E T \in {1, 2, 4} : mem \in [T : {T}, b : BufsOf(Elems(T), MaxLen)]
    /\ mem0 = mem
    /\ pre = mem
    /\ ret = "-"
    /\ reads = <<>>

\* zero_memory(b)
ZeroMemory ==
    /\ CanCall("zero")
    /\ mem' = [mem EXCEPT !.b = zero_memory(mem.b, mem.T)]
    /\ CalledNoReads("zero_memory", FALSE, "-")

NextZero == ZeroMemory

SpecZero == InitZero /\ [][NextZero]_vars

---------------------------------------------------------------------------
(* copy_slice_memory *)

\* assert!(dst.len() >= count && src.len() >= count)
AssertCopy(dst, src, count) == Len(dst) >= count /\ Len(src) >= count

\* a copy that stops one element short
copy_nonoverlapping_memory_short(dst, src, count) ==
    [k \in DOMAIN dst |-> IF k < count THEN src[k] ELSE dst[k]]

\* ptr::copy_nonoverlapping_memory(dst, src, count): count elements
copy_nonoverlapping_memory(dst, src, count) ==
    [k \in DOMAIN dst |-> IF k <= count THEN src[k] ELSE dst[k]]

\* copy_slice_memory without its assertion: copies what fits and returns
copy_slice_memory_truncating(dst, src, count) ==
    [panic |-> FALSE,
     dst |-> [k \in DOMAIN dst |-> IF k <= count /\ k <= Len(src) THEN src[k] ELSE dst[k]]]

copy_slice_memory(dst, src, count) ==
    IF AssertCopy(dst, src, count)
    THEN [panic |-> FALSE, dst |-> copy_nonoverlapping_memory(dst, src, count)]
    ELSE [panic |-> TRUE, dst |-> dst]

\* dst and src draw from different values, so that every copied element shows
DstElems == {Lit(0, 8), Lit(1, 8)}
SrcElems == {Lit(42, 8), Lit(255, 8)}

InitCopy ==
    /\ unit = "copy"
    /\ hist = <<>>
    /\ status = "ready"
    /\ mem \in [dst : BufsOf(DstElems, MaxLen), src : BufsOf(SrcElems, MaxLen), count : 0..(MaxLen + 1)]
    /\ mem0 = mem
    /\ pre = mem
    /\ ret = "-"
    /\ reads = <<>>

\* copy_slice_memory(dst, src, count)
CopySliceMemory ==
    /\ CanCall("copy")
    /\ LET r == copy_slice_memory(mem.dst, mem.src, mem.count) IN
         /\ mem' = [mem EXCEPT !.dst = r.dst]
         /\ CalledNoReads("copy_slice_memory", r.panic, "-")

NextCopy == CopySliceMemory

SpecCopy == InitCopy /\ [][NextCopy]_vars

---------------------------------------------------------------------------
(* byte_eq *)

\* byte_eq without the fold by 4: only the low nibble is folded
byte_eq_no_fold4(x, y) ==
    LET z0 == BitNot(BitXor(x, y))
        z2 == BitAnd(z0, Shr(z0, 2))
        z3 == BitAnd(z2, Shr(z2, 1))
    IN  z3

byte_eq(x, y) ==
    LET z0 == BitNot(BitXor(x, y))
        z1 == BitAnd(z0, Shr(z0, 4))
        z2 == BitAnd(z1, Shr(z1, 2))
        z3 == BitAnd(z2, Shr(z2, 1))
    IN  z3

U8 == [0..7 -> {0, 1}]

InitByteEq ==
    /\ unit = "byte_eq"
    /\ hist = <<>>
    /\ status = "ready"
    /\ mem \in [x : U8, y : U8]
    /\ mem0 = mem
    /\ pre = mem
    /\ ret = "-"
    /\ reads = <<>>

\* byte_eq(x, y)
ByteEq ==
    /\ CanCallOnce("byte_eq")
    /\ mem' = mem
    /\ CalledNoReads("byte_eq", FALSE, byte_eq(mem.x, mem.y))

NextByteEq == ByteEq

SpecByteEq == InitByteEq /\ [][NextByteEq]_vars

---------------------------------------------------------------------------
(* bytes_eq *)

RECURSIVE bytes_eq_loop_assign(_, _, _, _, _, _)
\* the comparison loop with "d =" where the source has "d |=": the last byte decides
bytes_eq_loop_assign(px, py, size, i, d, rd) ==
    IF i >= size THEN [d |-> d, reads |-> rd]
    ELSE bytes_eq_loop_assign(px, py, size, i + 1,
                              BitXor(px[i + 1], py[i + 1]), Append(rd, i))

RECURSIVE bytes_eq_loop_early(_, _, _, _, _, _)
\* the comparison loop leaving at the first difference
bytes_eq_loop_early(px, py, size, i, d, rd) ==
    IF i >= size \/ d # Lit(0, 8) THEN [d |-> d, reads |-> rd]
    ELSE bytes_eq_loop_early(px, py, size, i + 1,
                             BitOr(d, BitXor(px[i + 1], py[i + 1])), Append(rd, i))

RECURSIVE bytes_eq_loop(_, _, _, _, _, _)
\* for i in range(0u, size) { d |= *px.offset(i) ^ *py.offset(i); }
\* returns d and the offsets read, in order
bytes_eq_loop(px, py, size, i, d, rd) ==
    IF i >= size THEN [d |-> d, reads |-> rd]
    ELSE bytes_eq_loop(px, py, size, i + 1,
                       BitOr(d, BitXor(px[i + 1], py[i + 1])), Append(rd, i))

bytes_eq(x, y, T) ==
    IF Len(x) # Len(y) THEN [ret |-> FALSE, reads |-> <<>>]
    ELSE LET size == Len(x) * T
             r == bytes_eq_loop(AsBytes(x, T), AsBytes(y, T), size, 0, Lit(0, 8), <<>>)
         IN  [ret |-> (byte_eq(r.d, Lit(0, 8)) = Lit(1, 8)), reads |-> r.reads]

\* element values drawn for comparison: 0, 1 and the minimum; two of them
\* differ in the lowest byte, in the highest byte, or in both
EqElems(T) == {WordOf({}, 8 * T), WordOf({0}, 8 * T), WordOf({8 * T - 1}, 8 * T)}

InitBytesEq ==
    /\ unit = "bytes_eq"
    /\ hist = <<>>
    /\ status = "ready"
    /\ \E T \in {1, 2} :
         mem \in [T : {T}, x : BufsOf(EqElems(T), MaxLen), y : BufsOf(EqElems(T), MaxLen)]
    /\ mem0 = mem
    /\ pre = mem
    /\ ret = "-"
    /\ reads = <<>>

\* bytes_eq(x, y)
BytesEq ==
    /\ CanCallOnce("bytes_eq")
    /\ LET r == bytes_eq(mem.x, mem.y, mem.T) IN
         /\ mem' = mem
         /\ reads' = r.reads
         /\ Called("bytes_eq", FALSE, r.ret)

NextBytesEq == BytesEq

SpecBytesEq == InitBytesEq /\ [][NextBytesEq]_vars

---------------------------------------------------------------------------
(* bytes_cswap *)

\* assert_eq!(x.len(), y.len())
AssertCswap(x, y) == Len(x) = Len(y)

\* the condition used as the mask as it is: only its lowest bit is set
cswap_mask_cond(cond) == cond

\* let c: T = !(cond - num::one());
cswap_mask(cond) == BitNot(Sub(cond, Lit(1, Width(cond))))

RECURSIVE bytes_cswap_loop(_, _, _, _)
\* for i in range(0u, x.len()) {
\*     let t = c & (x[i] ^ y[i]); x[i] = x[i] ^ t; y[i] = y[i] ^ t; }
bytes_cswap_loop(c, x, y, i) ==
    IF i >= Len(x) THEN [x |-> x, y |-> y]
    ELSE LET t == BitAnd(c, BitXor(x[i + 1], y[i + 1])) IN
         bytes_cswap_loop(c,
                          [x EXCEPT ![i + 1] = BitXor(x[i + 1], t)],
                          [y EXCEPT ![i + 1] = BitXor(y[i + 1], t)],
                          i + 1)

bytes_cswap(cond, x, y) ==
    IF AssertCswap(x, y)
    THEN LET r == bytes_cswap_loop(cswap_mask(cond), x, y, 0) IN
         [panic |-> FALSE, x |-> r.x, y |-> r.y]
    ELSE [panic |-> TRUE, x |-> x, y |-> y]

\* element values drawn for the swap: 0, the minimum and -1
SwapElems(T) == {WordOf({}, 8 * T), WordOf({8 * T - 1}, 8 * T), WordOf(0..(8 * T - 1), 8 * T)}

\* cond is 0 or 1, as the function's documentation expects
Conds(T) == {Lit(0, 8 * T), Lit(1, 8 * T)}

InitCswap ==
    /\ unit = "cswap"
    /\ hist = <<>>
    /\ status = "ready"
    /\ \E T \in {1, 2} :
         mem \in [cond : Conds(T), x : BufsOf(SwapElems(T), MaxSwapLen),
                  y : BufsOf(SwapElems(T), MaxSwapLen)]
    /\ mem0 = mem
    /\ pre = mem
    /\ ret = "-"
    /\ reads = <<>>

\* bytes_cswap(cond, x, y)
BytesCswap ==
    /\ CanCall("cswap")
    /\ LET r == bytes_cswap(mem.cond, mem.x, mem.y) IN
         /\ mem' = [mem EXCEPT !.x = r.x, !.y = r.y]
         /\ CalledNoReads("bytes_cswap", r.panic, "-")

NextCswap == BytesCswap

SpecCswap == InitCswap /\ [][NextCswap]_vars

---------------------------------------------------------------------------
(* Every function with a length assertion, under one specification *)

InitContracts == InitCodec \/ InitCopy \/ InitCswap

NextContracts ==
    \/ U8to32Le
    \/ U32to8Le
    \/ U8to64Le
    \/ U64to8Le
    \/ CopySliceMemory
    \/ BytesCswap

SpecContracts == InitContracts /\ [][NextContracts]_vars

---------------------------------------------------------------------------
(* Properties *)

Returned == Len(hist) > 0 /\ status = "returned"
LastCall == hist[Len(hist)]
\* the call before the last one
PrevCall == hist[Len(hist) - 1]

Zero(w) == WordOf({}, w)
AllOnes(w) == WordOf(0..(w - 1), w)

\* the element-wise equality of two buffers
SameBuffers(x, y) == Len(x) = Len(y) /\ \A k \in 1..Len(x) : x[k] = y[k]

\* buf[0] + buf[1]*2^8 + ... over the (w / 8) leading bytes of buf, as a w-bit word
LeValue(buf, w) == [j \in 0..(w - 1) |-> buf[(j \div 8) + 1][j % 8]]

\* C1: byte_eq(x, y) is exactly 1 when x = y and exactly 0 when x # y
C1_ByteEqExact ==
    Returned =>
        /\ ret \in {Lit(0, 8), Lit(1, 8)}
        /\ mem.x = mem.y => ret = Lit(1, 8)
        /\ mem.x # mem.y => ret = Lit(0, 8)

\* bytes that differ in the top bit only compared unequal
C1_Witness ==
    /\ Returned
    /\ mem.x = Lit(128, 8)
    /\ mem.y = Lit(0, 8)
    /\ ret = Lit(0, 8)

\* C2: bytes_eq(x, y) is true iff x and y have the same length and the same
\* elements; for unequal lengths it is false and no byte of either was read
C2_BytesEqExact ==
    Returned =>
        /\ ret = SameBuffers(mem.x, mem.y)
        /\ Len(mem.x) # Len(mem.y) => (ret = FALSE /\ reads = <<>>)

\* two buffers of three 2-byte elements that differ in the middle one only,
\* and there in its high byte only, compared unequal
C2_Witness ==
    /\ Returned
    /\ mem.T = 2
    /\ Len(mem.x) = 3
    /\ Len(mem.y) = 3
    /\ mem.x[1] = mem.y[1]
    /\ mem.x[3] = mem.y[3]
    /\ mem.x[2] = Zero(16)
    /\ mem.y[2] = WordOf({15}, 16)
    /\ ret = FALSE

\* C3: bytes_cswap(0, x, y) leaves x and y as they were, bytes_cswap(1, x, y)
\* exchanges them, and an even number of calls with 1 restores both
C3_CswapExact ==
    Returned =>
        /\ mem.cond = Lit(0, Width(mem.cond)) =>
               (SameBuffers(mem.x, pre.x) /\ SameBuffers(mem.y, pre.y))
        /\ mem.cond = Lit(1, Width(mem.cond)) =>
               /\ SameBuffers(mem.x, pre.y)
               /\ SameBuffers(mem.y, pre.x)
               /\ Len(hist) % 2 = 0 =>
                      (SameBuffers(mem.x, mem0.x) /\ SameBuffers(mem.y, mem0.y))

\* swapped twice with cond = 1: x held the minimum and y held -1, the first
\* call exchanged them and the second put them back
C3_Witness ==
    /\ Returned
    /\ Len(hist) = 2
    /\ mem.cond = Lit(1, 8)
    /\ Len(mem0.x) = 2
    /\ mem0.x[1] = WordOf({7}, 8)
    /\ mem0.y[1] = AllOnes(8)
    /\ pre.x = mem0.y
    /\ pre.y = mem0.x
    /\ mem.x = mem0.x
    /\ mem.y = mem0.y

\* the last two calls encoded val into buf and decoded buf into a zero destination
RoundTripped(enc, dec, w) ==
    /\ Returned
    /\ Len(hist) >= 2
    /\ PrevCall = enc
    /\ LastCall = dec
    /\ pre.out = Zero(w)

\* C4: a word encoded into a buffer and decoded from it into a destination
\* that held 0 comes back (32-bit and 64-bit)
C4_RoundTrip ==
    \A w \in {32, 64} :
        (Width(mem.val) = w /\
            \/ RoundTripped("u32to8_le", "u8to32_le", w)
            \/ RoundTripped("u64to8_le", "u8to64_le", w))
        => mem.out = mem.val

\* a 64-bit word with its lowest and highest bits set made the round trip
\* through a buffer of more than 8 bytes
C4_Witness ==
    /\ RoundTripped("u64to8_le", "u8to64_le", 64)
    /\ mem.val = WordOf({0, 7, 8, 55, 63}, 64)
    /\ Len(mem.buf) > 8
    /\ mem.out = mem.val

\* C5: on buffers of equal length the loop of bytes_eq reads the byte offsets
\* 0, 1, ..., len * size_of(T) - 1, each once and in this order, whatever the
\* buffers hold
C5_ReadsEveryByte ==
    (Returned /\ Len(mem.x) = Len(mem.y)) =>
        reads = [k \in 1..(Len(mem.x) * mem.T) |-> k - 1]

\* buffers that differ already in their first byte were read to the end
C5_Witness ==
    /\ Returned
    /\ mem.T = 2
    /\ Len(mem.x) = 3
    /\ Len(mem.y) = 3
    /\ mem.x[1] = WordOf({0}, 16)
    /\ mem.y[1] = Zero(16)
    /\ reads = <<0, 1, 2, 3, 4, 5>>
    /\ ret = FALSE

\* the length precondition of the last call did not hold when it was made
Violated ==
    \/ LastCall \in {"u8to32_le", "u32to8_le"} /\ Len(pre.buf) < 4
    \/ LastCall \in {"u8to64_le", "u64to8_le"} /\ Len(pre.buf) < 8
    \/ LastCall = "copy_slice_memory" /\
          (pre.count > Len(pre.dst) \/ pre.count > Len(pre.src))
    \/ LastCall = "bytes_cswap" /\ Len(pre.x) # Len(pre.y)

C8_Pad16Exact ==
    Returned =>
        LET n == Len(ret) IN
        /\ n = (16 - (mem.len % 16)) % 16
        /\ n \in 0..15
        /\ (mem.len + n) % 16 = 0
        /\ \A m \in 0..(n - 1) : (mem.len + m) % 16 # 0
        /\ mem.len % 16 = 0 => n = 0
        /\ \A k \in 1..n : ret[k] = Lit(0, 8)

\* pad16(128) returned no byte
C8_Witness ==
    /\ Returned
    /\ mem.len = 128
    /\ ret = <<>>

\* C9: after zero_memory(b) every element of b is zero, and b is as long as
\* it was
C9_ZeroExact ==
    (Returned /\ unit = "zero") =>
        /\ Len(mem.b) = Len(pre.b)
        /\ \A k \in 1..Len(mem.b) : mem.b[k] = Zero(8 * mem.T)

\* three 4-byte elements, none of them zero, were zeroed
C9_Witness ==
    /\ Returned
    /\ Len(hist) = 1
    /\ mem.T = 4
    /\ Len(pre.b) = 3
    /\ \A k \in 1..3 : pre.b[k] # Zero(32)
    /\ pre.b[3] = AllOnes(32)
    /\ mem.b = <<Zero(32), Zero(32), Zero(32)>>

\* the last call was a decode that returned
Decoded == Returned /\ LastCall \in {"u8to32_le", "u8to64_le"}

\* what C10 says of every decode: the destination is its old value OR the
\* little-endian value of the leading bytes, and the buffer is unchanged
DecodeAccumulates ==
    Decoded =>
        /\ mem.out = BitOr(pre.out, LeValue(pre.buf, Width(pre.out)))
        /\ mem.buf = pre.buf
        /\ \A i \in DOMAIN pre.out : pre.out[i] = 1 => mem.out[i] = 1

\* C10 as stated: decoding accumulates, and the result is the little-endian
\* value of the buffer only when the destination was 0 beforehand
C10_AsStated ==
    /\ DecodeAccumulates
    /\ Decoded =>
           (mem.out = LeValue(pre.buf, Width(pre.out)) => pre.out = Zero(Width(pre.out)))

\* C10 amended: decoding accumulates, and the result is the little-endian
\* value of the buffer whenever the destination was 0 beforehand, and
\* exactly when every bit set in the destination is set in that value too
C10_DecodeAccumulates ==
    /\ DecodeAccumulates
    /\ Decoded =>
           LET le == LeValue(pre.buf, Width(pre.out)) IN
           /\ pre.out = Zero(Width(pre.out)) => mem.out = le
           /\ mem.out = le <=> \A i \in DOMAIN pre.out : pre.out[i] = 1 => le[i] = 1

\* a destination with bits set decoded a longer buffer of different bytes:
\* it kept its bits and is not the buffer's value
C10_Witness ==
    /\ Decoded
    /\ LastCall = "u8to32_le"
    /\ pre.out = WordOf({1, 7, 24, 31}, 32)
    /\ Len(pre.buf) = 5
    /\ pre.buf[1] = Lit(129, 8)
    /\ mem.out # LeValue(pre.buf, 32)
    /\ mem.out[1] = 1

=============================================================================
